---- MODULE Spec2Model ----
(***************************************************************************)
(* Model of the social-content backend of core/models.py and core/views.py *)
(* : the relational store (User, Post, Comment, PostLike, CommentLike with  *)
(* their foreign keys, cascades and uniqueness constraints), the write     *)
(* handlers, the comment-tree build of PostDetailAPIView.get and the karma *)
(* aggregation of LeaderboardAPIView.get.                                  *)
(*                                                                         *)
(* Identifiers are auto-increment integers starting at 1 and never reused. *)
(* Time is a discrete clock; one tick is one day.  Text fields (content,   *)
(* username, email) take no part in any control flow and are left out.     *)
(***************************************************************************)
EXTENDS Integers, Sequences, FiniteSets, TLC

\* ---- bounds of the model ------------------------------------------------
MaxUsers    == 2    \* users ever registered
MaxPosts    == 2    \* posts ever created
MaxComments == 2    \* comments ever created
MaxReqs     == 1    \* like requests ever issued (Spec)
MaxTime     == 1    \* last clock value (Spec)
LikeReqs    == 3    \* like requests ever issued (SpecLike)
TreeComments == 3   \* rows of the comment table (SpecTree)
BoardUsers  == 6    \* users of the store (SpecBoard)
MaxTie      == 3    \* users that share one like profile (SpecBoard)

\* ---- program constants --------------------------------------------------
PostWeight    == 5  \* weight of a post like in the karma sum
CommentWeight == 1  \* weight of a comment like in the karma sum
K             == 5  \* LIMIT of the leaderboard query
Window        == 1  \* timedelta(days=1), in clock ticks

Null      == 0      \* a NULL parent_id / None
Anonymous == 0      \* request.user of an unauthenticated request

VARIABLES
  users,         \* auth_user: set of user ids
  posts,         \* core_post: set of [id, author]
  comments,      \* core_comment: set of [id, post, author, parent, created_at]
  postLikes,     \* core_postlike: set of [id, user, post, created_at]
  commentLikes,  \* core_commentlike: set of [id, user, comment, created_at]
  nextId,        \* next auto-increment id of each table
  now,           \* timezone.now()
  reqs,          \* like requests: the handler's locals, position and response
  response       \* response of the handler that answered last; the tree build's
                 \* and the leaderboard's locals are kept in it

vars == <<users, posts, comments, postLikes, commentLikes, nextId, now, reqs, response>>
store == <<users, posts, comments, postLikes, commentLikes, nextId>>

\* ---- helpers --------------------------------------------------------------
Range(s) == {s[i] : i \in 1..Len(s)}
Ids(S) == {r.id : r \in S}
PostIds == Ids(posts)
CommentIds == Ids(comments)

NoResponse ==
  [op |-> "none", status |-> 0, post |-> 0, comments_qs |-> <<>>,
   nodes |-> <<>>, root |-> <<>>, cutoff |-> 0, rows |-> <<>>]

\* ---- generics.get_object_or_404 -------------------------------------------
\* a lookup that never raises Http404
GetObjectOr404Always(ids, pk) == TRUE

\* TRUE when a row with primary key pk exists, FALSE when Http404 is raised
GetObjectOr404(ids, pk) == pk \in ids

\* ---- write handlers -------------------------------------------------------
\* RegisterAPIView.post: a valid registration inserts a user.
Register ==
  /\ nextId.user <= MaxUsers
  /\ users' = users \cup {nextId.user}
  /\ nextId' = [nextId EXCEPT !.user = @ + 1]
  /\ response' = [NoResponse EXCEPT !.op = "register", !.status = 201]
  /\ UNCHANGED <<posts, comments, postLikes, commentLikes, now, reqs>>

\* PostListCreateAPIView.perform_create: saves only for an authenticated user.
CreatePost(u) ==
  /\ nextId.post <= MaxPosts
  /\ IF u = Anonymous
       THEN UNCHANGED <<posts, nextId>>
       ELSE /\ posts' = posts \cup {[id |-> nextId.post, author |-> u]}
            /\ nextId' = [nextId EXCEPT !.post = @ + 1]
  /\ response' = [NoResponse EXCEPT !.op = "post-create", !.status = 201]
  /\ UNCHANGED <<users, comments, postLikes, commentLikes, now, reqs>>

\* CommentCreateAPIView: the serializer requires an existing post and a parent
\* that is NULL or any existing comment; the post of the parent is not compared.
CommentValid(post_id, parent) ==
  /\ post_id \in PostIds
  /\ parent = Null \/ parent \in CommentIds

CreateComment(u, post_id, parent) ==
  /\ nextId.comment <= MaxComments
  /\ IF CommentValid(post_id, parent)
       THEN /\ comments' = comments \cup
                 {[id |-> nextId.comment, post |-> post_id, author |-> u,
                   parent |-> parent, created_at |-> now]}
            /\ nextId' = [nextId EXCEPT !.comment = @ + 1]
            /\ response' = [NoResponse EXCEPT !.op = "comment-create", !.status = 201]
       ELSE /\ UNCHANGED <<comments, nextId>>
            /\ response' = [NoResponse EXCEPT !.op = "comment-create", !.status = 400]
  /\ UNCHANGED <<users, posts, postLikes, commentLikes, now, reqs>>

\* The clock advances.
Tick ==
  /\ now < MaxTime
  /\ now' = now + 1
  /\ UNCHANGED <<store, reqs, response>>

\* ---- PostDetailAPIView.get : the comment tree -----------------------------
\* order_by('-created_at')
RECURSIVE OrderByCreatedAtDesc(_)
OrderByCreatedAtDesc(S) ==
  IF S = {} THEN {<<>>}
  ELSE UNION {{<<c>> \o s : s \in OrderByCreatedAtDesc(S \ {c})} :
               c \in {x \in S : \A y \in S : x.created_at >= y.created_at}}

\* order_by('created_at'): every ordering of S ascending in created_at; rows
\* with equal timestamps come in an order the database chooses.
RECURSIVE OrderByCreatedAt(_)
OrderByCreatedAt(S) ==
  IF S = {} THEN {<<>>}
  ELSE UNION {{<<c>> \o s : s \in OrderByCreatedAt(S \ {c})} :
               c \in {x \in S : \A y \in S : x.created_at <= y.created_at}}

\* Comment.objects.filter(post=post)
FilterByPost(pk) == {c \in comments : c.post = pk}

\* first loop: id -> node, children empty
BuildNodes(qs) ==
  [nid \in {qs[i].id : i \in 1..Len(qs)} |->
     LET c == CHOOSE x \in Range(qs) : x.id = nid
     IN [id |-> c.id, parent |-> c.parent, created_at |-> c.created_at,
         children |-> <<>>]]

\* a loop body that appends a child to the root list as well
LinkNodeBoth(t, nid) ==
  LET pid == t.nodes[nid].parent IN
  IF pid # Null
    THEN IF pid \in DOMAIN t.nodes
           THEN [nodes |-> [t.nodes EXCEPT ![pid].children = Append(@, nid)],
                 root |-> Append(t.root, nid)]
           ELSE t
    ELSE [t EXCEPT !.root = Append(@, nid)]

\* body of the second loop for the node nid; t = [nodes, root].  A node whose
\* parent id is set but is no key of nodes is appended to no list.
LinkNode(t, nid) ==
  LET pid == t.nodes[nid].parent IN
  IF pid # Null
    THEN IF pid \in DOMAIN t.nodes
           THEN [t EXCEPT !.nodes[pid].children = Append(@, nid)]
           ELSE t
    ELSE [t EXCEPT !.root = Append(@, nid)]

\* second loop: nodes.items() iterates in insertion order, that of qs
RECURSIVE LinkPass(_, _, _)
LinkPass(qs, i, t) ==
  IF i > Len(qs) THEN t
  ELSE LinkPass(qs, i + 1, LinkNode(t, qs[i].id))

BuildTree(qs) == LinkPass(qs, 1, [nodes |-> BuildNodes(qs), root |-> <<>>])

GetDetail(pk) ==
  /\ IF GetObjectOr404(PostIds, pk)
       THEN \E qs \in OrderByCreatedAt(FilterByPost(pk)) :
              LET t == BuildTree(qs) IN
              response' = [NoResponse EXCEPT !.op = "detail", !.status = 200,
                             !.post = pk, !.comments_qs = qs,
                             !.nodes = t.nodes, !.root = t.root]
       ELSE response' = [NoResponse EXCEPT !.op = "detail", !.status = 404,
                           !.post = pk]
  /\ UNCHANGED <<store, now, reqs>>

\* ---- PostLikeAPIView.post / CommentLikeAPIView.post -----------------------
\* A like request runs in two database steps: get_object_or_404 reads the
\* target, then the INSERT runs in its own transaction.atomic().  Requests of
\* different connections interleave between the two.
Req(kind, u, pk, pc, resp) ==
  [kind |-> kind, user |-> u, pk |-> pk, pc |-> pc, resp |-> resp]

TargetIds(kind) == IF kind = "post" THEN PostIds ELSE CommentIds

LikeStart(kind, u, pk) ==
  /\ reqs' = Append(reqs,
       IF GetObjectOr404(TargetIds(kind), pk)
         THEN Req(kind, u, pk, "create", "")
         ELSE Req(kind, u, pk, "done", "Not found"))
  /\ response' = NoResponse
  /\ UNCHANGED <<store, now>>

\* a table without the constraint
UniqueViolationNever(pairs, u, pk) == FALSE

\* UniqueConstraint(fields=['user', target]); pairs are those the table holds
UniqueViolation(pairs, u, pk) == <<u, pk>> \in pairs

\* The INSERT raises IntegrityError when the unique constraint or a foreign
\* key (the user or the target was deleted meanwhile) is violated.
IntegrityError(kind, u, pk) ==
  \/ u \notin users
  \/ pk \notin TargetIds(kind)
  \/ UniqueViolation(IF kind = "post"
                       THEN {<<l.user, l.post>> : l \in postLikes}
                       ELSE {<<l.user, l.comment>> : l \in commentLikes}, u, pk)

LikeCreate(i) ==
  LET r == reqs[i] IN
  /\ r.pc = "create"
  /\ IF IntegrityError(r.kind, r.user, r.pk)
       THEN /\ reqs' = [reqs EXCEPT ![i].pc = "done", ![i].resp = "Already liked"]
            /\ UNCHANGED <<postLikes, commentLikes, nextId>>
       ELSE /\ reqs' = [reqs EXCEPT ![i].pc = "done", ![i].resp = "liked"]
            /\ IF r.kind = "post"
                 THEN /\ postLikes' = postLikes \cup
                           {[id |-> nextId.postLike, user |-> r.user,
                             post |-> r.pk, created_at |-> now]}
                      /\ nextId' = [nextId EXCEPT !.postLike = @ + 1]
                      /\ UNCHANGED commentLikes
                 ELSE /\ commentLikes' = commentLikes \cup
                           {[id |-> nextId.commentLike, user |-> r.user,
                             comment |-> r.pk, created_at |-> now]}
                      /\ nextId' = [nextId EXCEPT !.commentLike = @ + 1]
                      /\ UNCHANGED postLikes
  /\ response' = NoResponse
  /\ UNCHANGED <<users, posts, comments, now>>

\* ---- deletion: on_delete=models.CASCADE -----------------------------------
\* a cascade that stops at the comments of D
CommentClosureDirect(D) == D

\* Comment.parent cascades: the comments of D and all their descendants.
RECURSIVE CommentClosure(_)
CommentClosure(D) ==
  LET more == {c.id : c \in {x \in comments : x.parent \in D}} IN
  IF more \subseteq D THEN D ELSE CommentClosure(D \cup more)

\* Deleting the users U, the posts P and the comments C with everything that
\* references them.
Delete(U, P, C) ==
  LET delPosts == P \cup {p.id : p \in {x \in posts : x.author \in U}}
      delComments == CommentClosure(C \cup
          {c.id : c \in {x \in comments : x.author \in U \/ x.post \in delPosts}})
  IN
  /\ users' = users \ U
  /\ posts' = {p \in posts : p.id \notin delPosts}
  /\ comments' = {c \in comments : c.id \notin delComments}
  /\ postLikes' = {l \in postLikes : l.user \notin U /\ l.post \notin delPosts}
  /\ commentLikes' = {l \in commentLikes : l.user \notin U /\ l.comment \notin delComments}
  /\ response' = NoResponse
  /\ UNCHANGED <<nextId, now, reqs>>

DeleteUser(u) == u \in users /\ Delete({u}, {}, {})
DeletePost(p) == p \in PostIds /\ Delete({}, {p}, {})
DeleteComment(c) == c \in CommentIds /\ Delete({}, {}, {c})

\* ---- LeaderboardAPIView.get : the karma aggregation -----------------------
\* The same rows under UNION, which merges equal ones.
EventsUnion ==
  {[user_id |-> p.author, weight |-> PostWeight, created_at |-> l.created_at,
    like |-> <<"post", 0>>] :
      <<p, l>> \in {x \in posts \X postLikes : x[2].post = x[1].id}}
  \cup
  {[user_id |-> c.author, weight |-> CommentWeight, created_at |-> l.created_at,
    like |-> <<"comment", 0>>] :
      <<c, l>> \in {x \in comments \X commentLikes : x[2].comment = x[1].id}}

\* The inner UNION ALL: one row per (post, post like) and per (comment,
\* comment like) pair of the two joins; like tags the row's origin, so that
\* equal-looking rows stay distinct as UNION ALL keeps them.
Events ==
  {[user_id |-> p.author, weight |-> PostWeight, created_at |-> l.created_at,
    like |-> <<"post", l.id>>] :
      <<p, l>> \in {x \in posts \X postLikes : x[2].post = x[1].id}}
  \cup
  {[user_id |-> c.author, weight |-> CommentWeight, created_at |-> l.created_at,
    like |-> <<"comment", l.id>>] :
      <<c, l>> \in {x \in comments \X commentLikes : x[2].comment = x[1].id}}

\* JOIN auth_user u ON u.id = t.user_id WHERE t.created_at >= cutoff
Joined(cutoff) == {e \in Events : e.user_id \in users /\ e.created_at >= cutoff}

RECURSIVE SumWeight(_)
SumWeight(S) ==
  IF S = {} THEN 0
  ELSE LET e == CHOOSE x \in S : TRUE IN e.weight + SumWeight(S \ {e})

\* GROUP BY u.id: one row per user that has at least one joined row
Groups(cutoff) ==
  {[user_id |-> u, karma |-> SumWeight({e \in Joined(cutoff) : e.user_id = u})] :
     u \in {e.user_id : e \in Joined(cutoff)}}

\* ORDER BY karma ASC
RECURSIVE OrderByKarmaAsc(_)
OrderByKarmaAsc(G) ==
  IF G = {} THEN {<<>>}
  ELSE UNION {{<<g>> \o s : s \in OrderByKarmaAsc(G \ {g})} :
               g \in {x \in G : \A y \in G : x.karma <= y.karma}}

\* ORDER BY karma DESC: every ordering of G descending in karma; rows with
\* equal karma come in an order the database chooses.
RECURSIVE OrderByKarmaDesc(_)
OrderByKarmaDesc(G) ==
  IF G = {} THEN {<<>>}
  ELSE UNION {{<<g>> \o s : s \in OrderByKarmaDesc(G \ {g})} :
               g \in {x \in G : \A y \in G : x.karma >= y.karma}}

\* LIMIT n
Limit(s, n) == SubSeq(s, 1, IF Len(s) < n THEN Len(s) ELSE n)

Leaderboard ==
  LET cutoff == now - Window IN
  /\ \E s \in OrderByKarmaDesc(Groups(cutoff)) :
        response' = [NoResponse EXCEPT !.op = "leaderboard", !.status = 200,
                       !.cutoff = cutoff, !.rows = Limit(s, K)]
  /\ UNCHANGED <<store, now, reqs>>

\* ---- the program ----------------------------------------------------------
\* The empty database.
Init ==
  /\ users = {}
  /\ posts = {}
  /\ comments = {}
  /\ postLikes = {}
  /\ commentLikes = {}
  /\ nextId = [user |-> 1, post |-> 1, comment |-> 1, postLike |-> 1, commentLike |-> 1]
  /\ now = 0
  /\ reqs = <<>>
  /\ response = NoResponse

\* Primary keys of requests range over the ids handed out so far and the next
\* one, which no row has.
Next ==
  \/ Register
  \/ \E u \in users \cup {Anonymous} : CreatePost(u)
  \/ \E u \in users, p \in 1..nextId.post, q \in 0..nextId.comment - 1 :
       CreateComment(u, p, q)
  \/ Tick
  \/ \E pk \in 1..nextId.post : GetDetail(pk)
  \/ Len(reqs) < MaxReqs /\ \E u \in users, pk \in 1..nextId.post :
       LikeStart("post", u, pk)
  \/ Len(reqs) < MaxReqs /\ \E u \in users, pk \in 1..nextId.comment :
       LikeStart("comment", u, pk)
  \/ \E i \in 1..Len(reqs) : LikeCreate(i)
  \/ \E u \in users : DeleteUser(u)
  \/ \E p \in PostIds : DeletePost(p)
  \/ \E c \in CommentIds : DeleteComment(c)
  \/ Leaderboard

Spec == Init /\ [][Next]_vars

\* ---- like requests racing on a small store ---------------------------------
\* Two users, one post and one comment on it, nothing liked yet; then like
\* requests and deletions in any interleaving.
InitLike ==
  /\ users = {1, 2}
  /\ posts = {[id |-> 1, author |-> 1]}
  /\ comments = {[id |-> 1, post |-> 1, author |-> 1, parent |-> Null, created_at |-> 0]}
  /\ postLikes = {}
  /\ commentLikes = {}
  /\ nextId = [user |-> 3, post |-> 2, comment |-> 2, postLike |-> 1, commentLike |-> 1]
  /\ now = 0
  /\ reqs = <<>>
  /\ response = NoResponse

NextLike ==
  \/ Len(reqs) < LikeReqs /\ \E u \in users, pk \in 1..nextId.post :
       LikeStart("post", u, pk)
  \/ Len(reqs) < LikeReqs /\ \E u \in users, pk \in 1..nextId.comment :
       LikeStart("comment", u, pk)
  \/ \E i \in 1..Len(reqs) : LikeCreate(i)
  \/ \E u \in users : DeleteUser(u)
  \/ \E p \in PostIds : DeletePost(p)
  \/ \E c \in CommentIds : DeleteComment(c)

SpecLike == InitLike /\ [][NextLike]_vars

\* ---- the tree build over every comment table the schema admits -------------
\* Comment.parent is a nullable foreign key to any comment: the table may hold a
\* parent of another post, a comment that is its own parent, and cycles.
InitTree ==
  /\ users = {1}
  /\ posts = {[id |-> 1, author |-> 1], [id |-> 2, author |-> 1]}
  /\ \E f \in [1..TreeComments ->
                 [post : {1, 2}, parent : 0..TreeComments, created_at : 0..1]] :
       comments = {[id |-> i, post |-> f[i].post, author |-> 1,
                    parent |-> f[i].parent, created_at |-> f[i].created_at] :
                   i \in 1..TreeComments}
  /\ postLikes = {}
  /\ commentLikes = {}
  /\ nextId = [user |-> 2, post |-> 3, comment |-> TreeComments + 1,
               postLike |-> 1, commentLike |-> 1]
  /\ now = 1
  /\ reqs = <<>>
  /\ response = NoResponse

NextTree == \E pk \in 1..nextId.post : GetDetail(pk)

SpecTree == InitTree /\ [][NextTree]_vars

\* ---- the leaderboard over stores with more than K scoring users ------------
\* Every user wrote one post and one comment on it; users 1 and 2 liked some of
\* them on day 0 (before the cutoff), on the cutoff day or today.  At most
\* MaxTie users received the same likes.
Today == Window + 1

Profiles ==
  { [pl |-> {}, cl |-> {}],
    [pl |-> {<<1, 0>>}, cl |-> {<<1, Today>>}],
    [pl |-> {<<1, Today - Window>>}, cl |-> {}],
    [pl |-> {<<1, Today>>, <<2, Today>>}, cl |-> {<<1, 0>>, <<2, Today>>}] }

\* rows <<target, liker, created_at>> get ids in the order of their creation
LikeRows(f, field) ==
  {<<t, x[1], x[2]>> : <<t, x>> \in
     {y \in (1..BoardUsers) \X ((1..2) \X (0..Today)) : y[2] \in f[y[1]][field]}}

Earlier(a, b) ==
  \/ a[3] < b[3]
  \/ a[3] = b[3] /\ a[1] < b[1]
  \/ a[3] = b[3] /\ a[1] = b[1] /\ a[2] < b[2]

RowId(R, a) == 1 + Cardinality({b \in R : Earlier(b, a)})

InitBoard ==
  /\ users = 1..BoardUsers
  /\ posts = {[id |-> u, author |-> u] : u \in 1..BoardUsers}
  /\ comments = {[id |-> u, post |-> u, author |-> u, parent |-> Null,
                  created_at |-> 0] : u \in 1..BoardUsers}
  /\ \E f \in {g \in [1..BoardUsers -> Profiles] :
                 \A pr \in Profiles : Cardinality({u \in 1..BoardUsers : g[u] = pr}) <= MaxTie} :
       LET P == LikeRows(f, "pl")
           C == LikeRows(f, "cl")
       IN /\ postLikes = {[id |-> RowId(P, a), user |-> a[2], post |-> a[1],
                           created_at |-> a[3]] : a \in P}
          /\ commentLikes = {[id |-> RowId(C, a), user |-> a[2], comment |-> a[1],
                              created_at |-> a[3]] : a \in C}
          /\ nextId = [user |-> BoardUsers + 1, post |-> BoardUsers + 1,
                       comment |-> BoardUsers + 1,
                       postLike |-> Cardinality(P) + 1,
                       commentLike |-> Cardinality(C) + 1]
  /\ now = Today
  /\ reqs = <<>>
  /\ response = NoResponse

NextBoard == Leaderboard

SpecBoard == InitBoard /\ [][NextBoard]_vars

\* ==== properties ===========================================================
\* ---- the returned tree ----------------------------------------------------
IsDetail == response.op = "detail" /\ response.status = 200

Children(n) == Range(response.nodes[n].children)

\* the nodes reachable from S through children lists
RECURSIVE Reach(_)
Reach(S) ==
  LET more == UNION {Children(n) : n \in S} IN
  IF more \subseteq S THEN S ELSE Reach(S \cup more)

\* the nodes of the returned tree: those reachable from the root list
OutputIds == Reach(Range(response.root))

Positions(list, n) == {i \in 1..Len(list) : list[i] = n}

RECURSIVE SumOver(_, _)
SumOver(S, n) ==
  IF S = {} THEN 0
  ELSE LET m == CHOOSE x \in S : TRUE
       IN Cardinality(Positions(response.nodes[m].children, n)) + SumOver(S \ {m}, n)

\* how often n occurs in the returned tree
Occurrences(n) == Cardinality(Positions(response.root, n)) + SumOver(OutputIds, n)

QsIds == {response.comments_qs[i].id : i \in 1..Len(response.comments_qs)}

\* C1: a comment of P whose parent id is non-null but is no comment of P is
\* returned as a root of P's tree.
C1_ForeignParentIsRoot ==
  IsDetail =>
    \A i \in 1..Len(response.comments_qs) :
      LET c == response.comments_qs[i] IN
      (c.parent # Null /\ c.parent \notin QsIds) => c.id \in Range(response.root)

\* C10: the tree returned for post P holds exactly the comments whose post is
\* P, each once.
C10_TreeHoldsExactlyThePostsComments ==
  IsDetail =>
    /\ OutputIds = Ids(FilterByPost(response.post))
    /\ \A n \in OutputIds : Occurrences(n) = 1

CreatedAt(n) == response.nodes[n].created_at

Ascending(list) ==
  \A i, j \in 1..Len(list) : CreatedAt(list[i]) < CreatedAt(list[j]) => i < j

\* C6: in the root list and in every children list of the returned tree, a
\* comment created earlier comes before one created later.
C6_ListsAscending ==
  IsDetail =>
    /\ Ascending(response.root)
    /\ \A n \in OutputIds : Ascending(response.nodes[n].children)

\* C6 witness: a children list of the returned tree holds two comments of
\* different creation times, the earlier one having the larger id.
C6_Witness ==
  /\ IsDetail
  /\ \E n \in OutputIds :
       \E i, j \in 1..Len(response.nodes[n].children) :
         LET l == response.nodes[n].children IN
         CreatedAt(l[i]) < CreatedAt(l[j]) /\ l[i] > l[j]

\* ---- the leaderboard ------------------------------------------------------
IsBoard == response.op = "leaderboard"

PostLikesOn(u, W) ==
  {l \in postLikes : l.created_at >= W /\ \E p \in posts : p.id = l.post /\ p.author = u}

CommentLikesOn(u, W) ==
  {l \in commentLikes :
     l.created_at >= W /\ \E c \in comments : c.id = l.comment /\ c.author = u}

KarmaOf(u, W) ==
  PostWeight * Cardinality(PostLikesOn(u, W)) +
  CommentWeight * Cardinality(CommentLikesOn(u, W))

RowUsers == {response.rows[i].user_id : i \in 1..Len(response.rows)}

\* C2: the karma of every user of the result is 5 x its post likes since the
\* cutoff + 1 x its comment likes since the cutoff, and no user with sum 0 is
\* in the result.
C2_KarmaIsWeightedCount ==
  IsBoard =>
    \A i \in 1..Len(response.rows) :
      LET r == response.rows[i] IN
      /\ r.user_id \in users
      /\ r.karma = KarmaOf(r.user_id, response.cutoff)
      /\ KarmaOf(r.user_id, response.cutoff) # 0

\* C2 witness: a user of the result has two post likes and a comment like
\* since the cutoff and a comment like before it; another user has a post like
\* exactly at the cutoff.
C2_Witness ==
  /\ IsBoard
  /\ \E i, j \in 1..Len(response.rows) :
       /\ response.rows[i].karma = 2 * PostWeight + CommentWeight
       /\ \E l \in commentLikes :
            /\ l.created_at < response.cutoff
            /\ \E c \in comments : c.id = l.comment /\ c.author = response.rows[i].user_id
       /\ response.rows[j].karma = PostWeight
       /\ \E l \in PostLikesOn(response.rows[j].user_id, response.cutoff) :
            l.created_at = response.cutoff

\* C4: the result holds at most K rows, in non-increasing karma, and no user
\* left out of it has more karma than a user in it.
C4_TopK ==
  IsBoard =>
    /\ Len(response.rows) <= K
    /\ \A i, j \in 1..Len(response.rows) :
         i < j => response.rows[i].karma >= response.rows[j].karma
    /\ \A u \in users \ RowUsers :
         \A i \in 1..Len(response.rows) :
           KarmaOf(u, response.cutoff) <= response.rows[i].karma

\* C4 witness: K rows of different karma, and a scoring user left out.
C4_Witness ==
  /\ IsBoard
  /\ Len(response.rows) = K
  /\ response.rows[1].karma > response.rows[K].karma
  /\ \E u \in users \ RowUsers : KarmaOf(u, response.cutoff) > 0

Scoring(W) == {u \in users : KarmaOf(u, W) > 0}

\* when at most K users score, all of them are in the result
AllScoringAppear ==
  (IsBoard /\ Cardinality(Scoring(response.cutoff)) <= K)
    => RowUsers = Scoring(response.cutoff)

SameRun == <<store, response.cutoff>>

\* C7: two runs of the leaderboard over the same store and cutoff return the
\* same sequence; and when at most K users score, all of them are returned.
C7_Deterministic ==
  [][ /\ (IsBoard /\ IsBoard' /\ SameRun' = SameRun) => response'.rows = response.rows
      /\ AllScoringAppear' ]_vars

\* ---- likes ----------------------------------------------------------------
ReqsOf(kind, u, pk) ==
  {i \in 1..Len(reqs) : reqs[i].kind = kind /\ reqs[i].user = u /\ reqs[i].pk = pk}

Liked(R) == {i \in R : reqs[i].resp = "liked"}

\* C3: the tables hold at most one like row per (user, target); of the like
\* requests of one user on one target at most one is answered 'liked', and
\* once all of them are answered exactly one is and every other one is
\* answered 'Already liked'.
C3_OneLikePerPair ==
  /\ \A l1, l2 \in postLikes : (l1.user = l2.user /\ l1.post = l2.post) => l1 = l2
  /\ \A l1, l2 \in commentLikes :
       (l1.user = l2.user /\ l1.comment = l2.comment) => l1 = l2
  /\ \A kind \in {"post", "comment"} : \A u \in 1..nextId.user, pk \in 1..nextId[kind] :
       LET R == ReqsOf(kind, u, pk) IN
       /\ Cardinality(Liked(R)) <= 1
       /\ (u \in users /\ pk \in TargetIds(kind) /\ R # {}
             /\ \A i \in R : reqs[i].pc = "done")
            => /\ Cardinality(Liked(R)) = 1
               /\ \A i \in R \ Liked(R) : reqs[i].resp = "Already liked"

\* C3 witness: three answered requests of one user on one post; the one
\* issued last was answered 'liked', the two issued before it 'Already liked'.
C3_Witness ==
  \E u \in users, pk \in PostIds :
    LET R == ReqsOf("post", u, pk) IN
    /\ Cardinality(R) >= 3
    /\ \A i \in R : reqs[i].pc = "done"
    /\ \E j \in Liked(R) : \A i \in R \ {j} : i < j /\ reqs[i].resp = "Already liked"

\* C8: a request on a missing target is answered not-found and changes
\* nothing: the post detail builds no tree, a like request inserts no row and
\* is finished.
C8_NotFoundChangesNothing ==
  [][ /\ (response'.op = "detail" /\ response'.post \notin PostIds')
           => /\ response'.status = 404
              /\ response'.comments_qs = <<>> /\ response'.nodes = <<>>
              /\ response'.root = <<>>
              /\ store' = store
      /\ Len(reqs') = Len(reqs) + 1
           => LET r == reqs'[Len(reqs')] IN
              r.pk \notin TargetIds(r.kind)
                => r.pc = "done" /\ r.resp = "Not found" /\ store' = store
      /\ \A i \in 1..Len(reqs) :
           reqs[i].resp = "Not found" => (i <= Len(reqs') /\ reqs'[i] = reqs[i]) ]_vars

\* C8 witness: a like request on a missing target was answered not-found, and
\* then the detail of a missing post was.
C8_Witness ==
  /\ \E i \in 1..Len(reqs) :
       /\ reqs[i].resp = "Not found"
       /\ reqs[i].pk \notin TargetIds(reqs[i].kind)
  /\ response.op = "detail" /\ response.status = 404
  /\ response.post \notin PostIds
  /\ posts # {}

\* ---- referential integrity ------------------------------------------------
\* C9: no row references a row that does not exist.
C9_NoDanglingReference ==
  /\ \A p \in posts : p.author \in users
  /\ \A c \in comments :
       /\ c.post \in PostIds
       /\ c.author \in users
       /\ c.parent # Null => c.parent \in CommentIds
  /\ \A l \in postLikes : l.user \in users /\ l.post \in PostIds
  /\ \A l \in commentLikes : l.user \in users /\ l.comment \in CommentIds

\* C9 witness: two comments and a comment like were created and are gone,
\* while a post and two users remain.
C9_Witness ==
  /\ nextId.comment = 3 /\ comments = {}
  /\ nextId.commentLike = 2 /\ commentLikes = {}
  /\ posts # {} /\ Cardinality(users) = 2
====
